---- MODULE Spec2Model ----
(***************************************************************************)
(* Model of proxy-cfg: the Aggregator (lib.rs get_proxy_config over        *)
(* METHODS), the environment source (env.rs), the sysconfig file source    *)
(* (sysconfig_proxy.rs) and the Matcher (ProxyConfig::use_proxy_for_address *)
(* and ProxyConfig::get_proxy_for_url).                                     *)
(*                                                                         *)
(* Strings are sequences of one-character strings, so that find, rfind,    *)
(* ends_with, split, trim and to_lowercase are computed as the code        *)
(* computes them.                                                          *)
(***************************************************************************)
EXTENDS Integers, Sequences, FiniteSets, TLC

VARIABLES
    config,       \* Matcher: the ProxyConfig the caller holds
    m_op,         \* Matcher: the last operation called ("none" before any call)
    m_address,    \* Matcher: the destination of the last call
    m_result,     \* Matcher: what the last call returned
    env_vars,     \* the process environment, as env::vars() enumerates it
    env_result,   \* what env::get_proxy_config returned
    file,         \* the file at the path given to get_proxy_config_from_file
    kv_result,    \* what read_key_value_pairs_from_file returned
    file_result,  \* what get_proxy_config_from_file returned
    methods,      \* Aggregator: the METHODS this build compiled in
    platform,     \* Aggregator: what the platform-native source returns
    pc,           \* Aggregator: position in lib.rs get_proxy_config
    idx,          \* Aggregator: index of the next source in METHODS
    last_err,     \* Aggregator: last_err
    consulted,    \* Aggregator: the sources called so far, in order
    result        \* Aggregator: the value returned

vars == <<config, m_op, m_address, m_result, env_vars, env_result, file,
          kv_result, file_result, methods, platform, pc, idx, last_err, consulted, result>>

matcher_vars == <<config, m_op, m_address, m_result>>
env_vars_all == <<env_vars, env_result>>
file_vars == <<file, kv_result, file_result>>
agg_vars == <<methods, platform, pc, idx, last_err, consulted, result>>

----------------------------------------------------------------------------
(* Bounds *)

MaxHostLen == 2     \* longest generated destination host
MaxWhitelist == 2   \* most entries in a generated whitelist
MaxVars == 2        \* most environment pairs
MaxLines == 3       \* most lines in the file

----------------------------------------------------------------------------
(* Strings *)

Upper == <<"A","B","C","D","E","F","G","H","I","J","K","L","M",
           "N","O","P","Q","R","S","T","U","V","W","X","Y","Z">>
Lower == <<"a","b","c","d","e","f","g","h","i","j","k","l","m",
           "n","o","p","q","r","s","t","u","v","w","x","y","z">>

\* char::to_lowercase on the characters of the model
ToLowerChar(c) ==
    IF \E i \in DOMAIN Upper : Upper[i] = c
    THEN Lower[CHOOSE i \in DOMAIN Upper : Upper[i] = c]
    ELSE c

\* str::to_lowercase
to_lowercase(s) == [i \in 1..Len(s) |-> ToLowerChar(s[i])]

\* str::ends_with
ends_with(s, suffix) ==
    /\ Len(suffix) <= Len(s)
    /\ SubSeq(s, Len(s) - Len(suffix) + 1, Len(s)) = suffix

\* str::contains(char)
contains(s, c) == \E i \in 1..Len(s) : s[i] = c

\* pat occurs in s at (1-based) position p
OccursAt(s, pat, p) ==
    /\ p + Len(pat) - 1 <= Len(s)
    /\ SubSeq(s, p, p + Len(pat) - 1) = pat

\* str::find: the first position of pat in s, 0 for None
find(s, pat) ==
    IF \E p \in 1..Len(s) : OccursAt(s, pat, p)
    THEN CHOOSE p \in 1..Len(s) :
            /\ OccursAt(s, pat, p)
            /\ \A q \in 1..(p - 1) : ~OccursAt(s, pat, q)
    ELSE 0

\* str::rfind(char): the last position of c in s, 0 for None
rfind(s, c) ==
    IF contains(s, c)
    THEN CHOOSE p \in 1..Len(s) :
            /\ s[p] = c
            /\ \A q \in (p + 1)..Len(s) : s[q] # c
    ELSE 0

IsWhitespace(c) == c = " "

RECURSIVE trim_start(_)
trim_start(s) ==
    IF s # <<>> /\ IsWhitespace(Head(s)) THEN trim_start(Tail(s)) ELSE s

RECURSIVE trim_end(_)
trim_end(s) ==
    IF s # <<>> /\ IsWhitespace(s[Len(s)])
    THEN trim_end(SubSeq(s, 1, Len(s) - 1))
    ELSE s

\* str::trim
trim(s) == trim_end(trim_start(s))

\* str::split(","): the pieces between the commas, in order (always >= 1 piece)
RECURSIVE split(_, _)
split(s, c) ==
    IF contains(s, c)
    THEN LET p == CHOOSE p \in 1..Len(s) :
                      s[p] = c /\ \A q \in 1..(p - 1) : s[q] # c
         IN <<SubSeq(s, 1, p - 1)>> \o split(SubSeq(s, p + 1, Len(s)), c)
    ELSE <<s>>

\* all strings over chars of length <= n
RECURSIVE AllStrings(_, _)
AllStrings(chars, n) ==
    IF n = 0 THEN {<<>>}
    ELSE LET shorter == AllStrings(chars, n - 1)
         IN shorter \cup {Append(s, c) : s \in shorter, c \in chars}

\* the orders in which a set can be enumerated
RECURSIVE Orders(_)
Orders(S) ==
    IF S = {} THEN {<<>>}
    ELSE UNION {{<<x>> \o o : o \in Orders(S \ {x})} : x \in S}

Range(f) == {f[i] : i \in DOMAIN f}

None == [tag |-> "None"]
Some(v) == [tag |-> "Some", value |-> v]

OkNone == [tag |-> "OkNone"]
OkSome(cfg) == [tag |-> "OkSome", config |-> cfg]
Err(kind) == [tag |-> "Err", kind |-> kind]
Ok(v) == [tag |-> "Ok", value |-> v]

\* the Error an io::Error is converted to by the ? operator
IoError == Err("Io")

NotCalled == [tag |-> "NotCalled"]

\* ProxyConfig (lib.rs): proxies is a function from scheme keys to endpoints
ProxyConfig(proxies, whitelist, exclude_simple) ==
    [proxies |-> proxies, whitelist |-> whitelist, exclude_simple |-> exclude_simple]

EmptyMap == [k \in {} |-> <<>>]

\* ProxyConfig::default()
DefaultConfig == ProxyConfig(EmptyMap, {}, FALSE)

\* HashMap::insert
MapInsert(m, k, v) == [x \in DOMAIN m \cup {k} |-> IF x = k THEN v ELSE m[x]]

----------------------------------------------------------------------------
(* Matcher: lib.rs ProxyConfig::use_proxy_for_address, get_proxy_for_url *)

s_http == <<"h","t","t","p">>
s_https == <<"h","t","t","p","s">>
s_ftp == <<"f","t","p">>
s_star == <<"*">>
s_no == <<"n","o">>

\* A destination string. is_url: Url::parse succeeds and the URL has a host;
\* then text is that host and scheme the URL's scheme. Otherwise text is the
\* whole string.
Address(is_url, scheme, text) == [is_url |-> is_url, scheme |-> scheme, text |-> text]

\* the host taken as written when the destination is not a URL
NormalizedHost_NoLowercase(address) ==
    IF address.is_url THEN to_lowercase(address.text) ELSE address.text

\* lib.rs 34-40: the normalized host of a destination
NormalizedHost(address) ==
    IF address.is_url
    THEN to_lowercase(address.text)   \* url_host.to_lowercase()
    ELSE to_lowercase(address.text)   \* address.to_lowercase()

\* the closure cutting the pattern at its first "*"
WildcardMatches_FirstStar(pattern, host) ==
    LET pos == find(pattern, <<"*">>)
    IN IF pos # 0
       THEN LET suffix == SubSeq(pattern, pos + 1, Len(pattern))
            IN suffix # <<>> /\ ends_with(host, suffix)
       ELSE FALSE

\* lib.rs 55-62: the closure given to any()
WildcardMatches(pattern, host) ==
    LET pos == rfind(pattern, "*")
    IN IF pos # 0
       THEN LET suffix == SubSeq(pattern, pos + 1, Len(pattern))
            IN suffix # <<>> /\ ends_with(host, suffix)
       ELSE FALSE

\* Iterator::any over the whitelist enumerated in the given order,
\* stopping at the first entry the closure accepts
RECURSIVE any_wildcard(_, _)
any_wildcard(order, host) ==
    IF order = <<>> THEN FALSE
    ELSE IF WildcardMatches(Head(order), host) THEN TRUE
    ELSE any_wildcard(Tail(order), host)

\* the dotless check applied to hosts that do contain a "."
use_proxy_for_address_DotInverted(self, address, order) ==
    LET host == NormalizedHost(address)
    IN IF self.exclude_simple /\ contains(host, ".") THEN FALSE
       ELSE IF host \in self.whitelist THEN FALSE
       ELSE IF any_wildcard(order, host) THEN FALSE
       ELSE TRUE

\* lib.rs 32-67; order is the order in which the HashSet enumerates the whitelist
use_proxy_for_address(self, address, order) ==
    LET host == NormalizedHost(address)
    IN IF self.exclude_simple /\ ~contains(host, ".") THEN FALSE
       ELSE IF host \in self.whitelist THEN FALSE
       ELSE IF any_wildcard(order, host) THEN FALSE
       ELSE TRUE

\* the lookup without the fallback to the "*" key
get_proxy_for_url_NoFallback(self, url, order) ==
    IF use_proxy_for_address(self, url, order)
    THEN IF url.scheme \in DOMAIN self.proxies
         THEN Some(to_lowercase(self.proxies[url.scheme]))
         ELSE None
    ELSE None

\* lib.rs 69-78; None or Some(endpoint)
get_proxy_for_url(self, url, order) ==
    IF use_proxy_for_address(self, url, order)
    THEN IF url.scheme \in DOMAIN self.proxies
         THEN Some(to_lowercase(self.proxies[url.scheme]))
         ELSE IF s_star \in DOMAIN self.proxies
         THEN Some(to_lowercase(self.proxies[s_star]))
         ELSE None
    ELSE None


(* The configurations and destinations the Matcher is run on *)

s_endpoint1 == <<"P","1",".","x">>
s_endpoint9 == <<"9",".","9">>
s_localhost_ == <<"l","o","c","a","l","h","o","s","t">>

\* whitelist entries: empty, exact names, "*" alone, "*" last, "*" first,
\* "*" before a dotted suffix, several "*", and one entry that is not lowercase
Patterns ==
    { <<>>, <<"a">>, <<"*">>, <<"a","*">>, <<"*","a">>, <<"*",".","a">>,
      <<"a","*",".","*","a","a">>, <<"A">> }

HostChars == {"a", "A", "."}

\* destination hosts: every short string, two dotted names, and two that
\* spell a "*" entry
Hosts ==
    AllStrings(HostChars, MaxHostLen)
        \cup { <<"a",".","a">>, <<"A",".","a">>, <<"*">>, <<"a","*">> }

\* the subsets of S with at most n elements
RECURSIVE SubsetsUpTo(_, _)
SubsetsUpTo(S, n) ==
    IF n = 0 THEN {{}}
    ELSE LET smaller == SubsetsUpTo(S, n - 1)
         IN smaller \cup {W \cup {x} : W \in smaller, x \in S}

Whitelists == SubsetsUpTo(Patterns, MaxWhitelist)

ProxyMaps ==
    { EmptyMap,
      [k \in {s_http} |-> s_endpoint1],
      [k \in {s_star} |-> s_endpoint9],
      [k \in {s_http, s_star} |-> IF k = s_http THEN s_endpoint1 ELSE s_endpoint9] }

Configs ==
    {ProxyConfig(p, w, e) : p \in ProxyMaps, w \in Whitelists, e \in BOOLEAN}

\* destinations given to use_proxy_for_address: plain strings and URLs
Addresses ==
    {Address(FALSE, <<>>, h) : h \in Hosts} \cup {Address(TRUE, s_http, h) : h \in Hosts}

\* URLs given to get_proxy_for_url
Urls == {Address(TRUE, sc, h) : sc \in {s_http, s_https}, h \in Hosts}

IdleMatcher ==
    /\ config = DefaultConfig
    /\ m_op = "none"
    /\ m_address = Address(FALSE, <<>>, <<>>)
    /\ m_result = NotCalled

IdleEnv == env_vars = <<>> /\ env_result = NotCalled

\* a path at which there is no file
MissingFile == [exists |-> FALSE, readable |-> FALSE, lines |-> <<>>]

IdleFile == file = MissingFile /\ kv_result = NotCalled /\ file_result = NotCalled

IdleAgg ==
    /\ methods = <<>>
    /\ platform = OkNone
    /\ pc = "idle"
    /\ idx = 1
    /\ last_err = None
    /\ consulted = <<>>
    /\ result = NotCalled

InitMatch ==
    /\ config \in Configs
    /\ m_op = "none"
    /\ m_address = Address(FALSE, <<>>, <<>>)
    /\ m_result = NotCalled
    /\ IdleEnv /\ IdleFile /\ IdleAgg

\* a caller asks whether a destination goes through the proxy
UseProxyForAddress ==
    /\ m_op = "none"
    /\ \E address \in Addresses, order \in Orders(config.whitelist) :
           /\ m_op' = "use_proxy_for_address"
           /\ m_address' = address
           /\ m_result' = use_proxy_for_address(config, address, order)
           /\ UNCHANGED <<config, env_vars_all, file_vars, agg_vars>>

\* a caller asks for the proxy of a URL
GetProxyForUrl ==
    /\ m_op = "none"
    /\ \E url \in Urls, order \in Orders(config.whitelist) :
           /\ m_op' = "get_proxy_for_url"
           /\ m_address' = url
           /\ m_result' = get_proxy_for_url(config, url, order)
           /\ UNCHANGED <<config, env_vars_all, file_vars, agg_vars>>

NextMatch == UseProxyForAddress \/ GetProxyForUrl

SpecMatch == InitMatch /\ [][NextMatch]_vars


----------------------------------------------------------------------------
(* Matcher: properties *)

\* t is the text of p strictly after its rightmost "*"
IsSuffixAfterLastStar(p, t) ==
    \E u \in {SubSeq(p, 1, n) : n \in 0..Len(p)} :
        /\ p = u \o <<"*">> \o t
        /\ \A i \in 1..Len(t) : t[i] # "*"

\* h ends with t
IsSuffixOf(t, h) == \E u \in {SubSeq(h, 1, n) : n \in 0..Len(h)} : h = u \o t

\* r is s with every upper-case letter replaced by its lower-case letter
IsLowercased(r, s) ==
    /\ Len(r) = Len(s)
    /\ \A i \in 1..Len(s) :
          \/ /\ \E j \in DOMAIN Upper : Upper[j] = s[i] /\ Lower[j] = r[i]
          \/ /\ \A j \in DOMAIN Upper : Upper[j] # s[i]
             /\ r[i] = s[i]

HasUpper(s) == \E i \in 1..Len(s), j \in DOMAIN Upper : s[i] = Upper[j]

\* the lower-cased host of the last call's destination
CalledHost == to_lowercase(m_address.text)

\* the wildcard rule: entry p, by its suffix after the rightmost "*", covers host h
WildcardCovers(p, h) ==
    \E t \in {SubSeq(p, n, Len(p)) : n \in 1..(Len(p) + 1)} :
        /\ IsSuffixAfterLastStar(p, t)
        /\ t # <<>>
        /\ IsSuffixOf(t, h)

DotlessRule(cfg, h) == cfg.exclude_simple /\ \A i \in 1..Len(h) : h[i] # "."
ExactRule(cfg, h) == h \in cfg.whitelist
WildcardRule(cfg, h) == \E p \in cfg.whitelist : WildcardCovers(p, h)

Bypassed ==
    \/ m_op = "use_proxy_for_address" /\ m_result = FALSE
    \/ m_op = "get_proxy_for_url" /\ m_result = None

\* C4 (as amended): use_proxy_for_address bypasses exactly when the dotless
\* rule applies, or the lower-cased host is an entry of the whitelist, or some
\* entry containing "*" has a non-empty text after its rightmost "*" and the
\* host ends with that text; whatever stands before that "*" is ignored and
\* the order in which the whitelist is enumerated does not matter. An entry
\* ending in "*" bypasses only the host spelled exactly like the entry.
C4_WildcardBypass ==
    m_op = "use_proxy_for_address" =>
        /\ (m_result = FALSE) <=>
               \/ DotlessRule(config, CalledHost)
               \/ ExactRule(config, CalledHost)
               \/ WildcardRule(config, CalledHost)
        /\ \A p \in config.whitelist :
               (p # <<>> /\ p[Len(p)] = "*" /\ config.whitelist = {p}
                  /\ ~config.exclude_simple)
                   => ((m_result = FALSE) <=> (CalledHost = p))
        /\ (config.whitelist = {<<"*", ".", "a">>} /\ ~config.exclude_simple)
               => ((m_result = FALSE) <=> IsSuffixOf(<<".", "a">>, CalledHost))

\* C4 witness: a two-entry whitelist, one entry "*" alone, the other "*.a";
\* the host a.a is in neither, and is bypassed by the wildcard rule
C4_Witness ==
    /\ m_op = "use_proxy_for_address"
    /\ config.whitelist = {<<"*">>, <<"*", ".", "a">>}
    /\ ~config.exclude_simple
    /\ m_address.text = <<"a", ".", "a">>
    /\ m_result = FALSE

\* C4 as stated: with a single whitelist entry that contains "*" (and
\* exclude_simple off), the host is bypassed exactly when the text after the
\* rightmost "*" is non-empty and the host ends with it, so an entry ending
\* in "*" bypasses no host
C4_Original ==
    (m_op = "use_proxy_for_address" /\ ~config.exclude_simple) =>
        \A p \in config.whitelist :
            (config.whitelist = {p} /\ \E i \in 1..Len(p) : p[i] = "*")
                => ((m_result = FALSE) <=> WildcardCovers(p, CalledHost))

\* C5: with exclude_simple set, a host without "." is bypassed by both
\* operations whatever the whitelist and the proxies; with exclude_simple set
\* and an empty whitelist a host containing "." goes through the proxy
C5_DotlessBypass ==
    /\ (m_op # "none" /\ config.exclude_simple
          /\ \A i \in 1..Len(CalledHost) : CalledHost[i] # ".")
           => Bypassed
    /\ (m_op = "use_proxy_for_address" /\ config.exclude_simple
          /\ config.whitelist = {}
          /\ \E i \in 1..Len(CalledHost) : CalledHost[i] = ".")
           => m_result = TRUE

\* C5 witness: get_proxy_for_url on a dotless host that no whitelist entry
\* covers, with a proxy configured for the scheme, returns None
C5_Witness ==
    /\ m_op = "get_proxy_for_url"
    /\ config.exclude_simple
    /\ m_address.text = <<"a", "A">>
    /\ config.whitelist = {<<"*", ".", "a">>}
    /\ m_address.scheme \in DOMAIN config.proxies
    /\ m_result = None

C7_CaseInsensitive ==
    (m_op = "use_proxy_for_address" /\ \A p \in config.whitelist : ~HasUpper(p)) =>
        \A other \in Addresses :
            (/\ other.is_url = m_address.is_url
             /\ Len(other.text) = Len(m_address.text)
             /\ \A i \in 1..Len(other.text) :
                    \/ other.text[i] = m_address.text[i]
                    \/ \E j \in DOMAIN Upper :
                          {other.text[i], m_address.text[i]} = {Upper[j], Lower[j]})
                => \A order \in Orders(config.whitelist) :
                       use_proxy_for_address(config, other, order) = m_result

\* C7 witness: a URL whose host A.a has an upper-case letter is bypassed by "*.a"
C7_Witness ==
    /\ m_op = "use_proxy_for_address"
    /\ m_address.is_url
    /\ m_address.text = <<"A", ".", "a">>
    /\ config.whitelist = {<<"a">>, <<"*", ".", "a">>}
    /\ ~config.exclude_simple
    /\ m_result = FALSE


----------------------------------------------------------------------------
(* Environment source: env.rs get_proxy_config *)

s__proxy == <<"_","p","r","o","x","y">>

\* env.rs 14-18 without the is_empty test
no_proxy_entries_KeepEmpty(value) ==
    {to_lowercase(trim(piece)) : piece \in Range(split(value, ","))}

\* env.rs 14-18 inserting the pieces in the letter case they were written in
no_proxy_entries_NoLowercase(value) ==
    {trim(piece) : piece \in Range(split(value, ","))} \ {<<>>}

\* env.rs 14-18: the whitelist entries a NO_PROXY value contributes
no_proxy_entries(value) ==
    {to_lowercase(url) : url \in {trim(piece) : piece \in Range(split(value, ","))} \ {<<>>}}

\* env.rs 10-22: the body of the loop, for one (key, value) of the environment
env_loop_body(proxy_config, var) ==
    LET key == to_lowercase(var.key)
    IN IF ends_with(key, s__proxy)
       THEN LET scheme == SubSeq(key, 1, Len(key) - 6)
            IN IF scheme = s_no
               THEN [proxy_config EXCEPT
                        !.whitelist = @ \cup no_proxy_entries(var.value)]
               ELSE [proxy_config EXCEPT
                        !.proxies = MapInsert(@, to_lowercase(scheme), var.value)]
       ELSE proxy_config

\* env.rs 9-23: the loop over vars, in the order env::vars() gave them
RECURSIVE env_loop(_, _)
env_loop(proxy_config, vars_left) ==
    IF vars_left = <<>> THEN proxy_config
    ELSE env_loop(env_loop_body(proxy_config, Head(vars_left)), Tail(vars_left))

\* env.rs 5-30
env_get_proxy_config(vars_) ==
    LET proxy_config == env_loop(DefaultConfig, vars_)
    IN IF DOMAIN proxy_config.proxies = {} THEN OkNone ELSE OkSome(proxy_config)

(* The environments the source is run on *)

s_HTTP_PROXY == <<"H","T","T","P","_","P","R","O","X","Y">>
s_http_proxy == <<"h","t","t","p","_","p","r","o","x","y">>
s_Ftp_Proxy == <<"F","t","p","_","P","r","o","x","y">>
s_NO_PROXY == <<"N","O","_","P","R","O","X","Y">>
s_no_proxy == <<"n","o","_","p","r","o","x","y">>
s_PROXY_HOME == <<"P","R","O","X","Y","_","H","O","M","E">>
s__PROXY == <<"_","P","R","O","X","Y">>

EnvNames ==
    {s_HTTP_PROXY, s_http_proxy, s_Ftp_Proxy, s_NO_PROXY, s_no_proxy, s_PROXY_HOME,
     s__PROXY}

s_value_Px == <<"P","x">>
s_value_q == <<"q">>
s_value_list == <<" ","a"," ",","," ",",",",","B",".","c">>

EnvValues == {s_value_Px, s_value_q, s_value_list, <<>>}

EnvVar(key, value) == [key |-> key, value |-> value]

\* the environments with at most n variables, no name twice
RECURSIVE EnvsUpTo(_)
EnvsUpTo(n) ==
    IF n = 0 THEN {<<>>}
    ELSE LET shorter == EnvsUpTo(n - 1)
         IN shorter \cup
            {Append(e, EnvVar(k, v)) :
                e \in {x \in shorter : Len(x) = n - 1},
                k \in EnvNames, v \in EnvValues}

Environments ==
    {e \in EnvsUpTo(MaxVars) :
        \A i, j \in 1..Len(e) : i # j => e[i].key # e[j].key}

InitEnv ==
    /\ env_vars \in Environments
    /\ env_result = NotCalled
    /\ IdleMatcher /\ IdleFile /\ IdleAgg

\* env::get_proxy_config is called
EnvGetProxyConfig ==
    /\ env_result = NotCalled
    /\ env_result' = env_get_proxy_config(env_vars)
    /\ UNCHANGED <<env_vars, matcher_vars, file_vars, agg_vars>>

NextEnv == EnvGetProxyConfig

SpecEnv == InitEnv /\ [][NextEnv]_vars

----------------------------------------------------------------------------
(* Environment source: properties *)

\* name ends in _PROXY, in any letter case
EndsInProxy(name) ==
    /\ Len(name) >= 6
    /\ IsLowercased(<<"_","p","r","o","x","y">>, SubSeq(name, Len(name) - 5, Len(name)))

\* k is the lower-cased name without its _PROXY suffix
IsSchemeOf(k, name) ==
    /\ EndsInProxy(name)
    /\ IsLowercased(k, SubSeq(name, 1, Len(name) - 6))

IsNoProxy(name) == IsSchemeOf(<<"n","o">>, name)

\* the comma-separated pieces of v: each lies between two neighbouring
\* separators (a comma, or an end of v) and holds no comma
PiecesOf(v) ==
    {SubSeq(v, ab[1] + 1, ab[2] - 1) :
        ab \in {x \in (0..Len(v)) \X (1..(Len(v) + 1)) :
                   /\ x[1] < x[2]
                   /\ x[1] = 0 \/ v[x[1]] = ","
                   /\ x[2] = Len(v) + 1 \/ v[x[2]] = ","
                   /\ \A i \in (x[1] + 1)..(x[2] - 1) : v[i] # ","}}

\* s without its leading and trailing blanks: the part of s from its first
\* to its last non-blank character
TrimmedOf(s) ==
    LET solid == {i \in 1..Len(s) : s[i] # " "}
    IN IF solid = {} THEN <<>>
       ELSE SubSeq(s, CHOOSE i \in solid : \A j \in solid : i <= j,
                      CHOOSE i \in solid : \A j \in solid : j <= i)

\* the whitelist entries the claim assigns to a NO_PROXY value
ClaimedEntries(v) ==
    {to_lowercase(t) : t \in {TrimmedOf(piece) : piece \in PiecesOf(v)} \ {<<>>}}

\* the positions of env_vars that set a proxy, and the scheme keys they name
ProxyPositions ==
    {i \in 1..Len(env_vars) : EndsInProxy(env_vars[i].key) /\ ~IsNoProxy(env_vars[i].key)}

ClaimedKeys ==
    {to_lowercase(SubSeq(env_vars[i].key, 1, Len(env_vars[i].key) - 6)) : i \in ProxyPositions}

\* the last position that names scheme key k
LastPositionOf(k) ==
    CHOOSE i \in ProxyPositions :
        /\ IsSchemeOf(k, env_vars[i].key)
        /\ \A j \in ProxyPositions : IsSchemeOf(k, env_vars[j].key) => j <= i

ClaimedWhitelist ==
    UNION {ClaimedEntries(env_vars[i].value) :
              i \in {j \in 1..Len(env_vars) : IsNoProxy(env_vars[j].key)}}

\* C10: the environment source returns Absent exactly when no name other
\* than NO_PROXY ends in _PROXY; otherwise Success with proxies holding, for
\* each such name, lower-cased and without the suffix, the raw value of the
\* last pair with that key, with the whitelist holding the trimmed, non-empty,
\* lower-cased comma-separated pieces of the NO_PROXY values, and with
\* exclude_simple off
C10_EnvSource ==
    env_result # NotCalled =>
        /\ (env_result = OkNone) <=> (ProxyPositions = {})
        /\ ProxyPositions # {} =>
              /\ env_result.tag = "OkSome"
              /\ DOMAIN env_result.config.proxies = ClaimedKeys
              /\ \A k \in ClaimedKeys :
                     env_result.config.proxies[k] = env_vars[LastPositionOf(k)].value
              /\ env_result.config.whitelist = ClaimedWhitelist
              /\ env_result.config.exclude_simple = FALSE

\* C10 witness: NO_PROXY with blanks, an empty piece and an upper-case letter,
\* then a proxy variable; the whitelist is {a, b.c}
C10_Witness ==
    /\ env_result # NotCalled
    /\ Len(env_vars) = 2
    /\ env_vars[1] = EnvVar(s_NO_PROXY, s_value_list)
    /\ env_vars[2] = EnvVar(s_Ftp_Proxy, s_value_Px)
    /\ env_result = OkSome(ProxyConfig([k \in {s_ftp} |-> s_value_Px],
                                       {<<"a">>, <<"b", ".", "c">>}, FALSE))

----------------------------------------------------------------------------
(* File source: sysconfig_proxy.rs *)

s_PROXY_ENABLED == <<"P","R","O","X","Y","_","E","N","A","B","L","E","D">>
s_HTTPS_PROXY == <<"H","T","T","P","S","_","P","R","O","X","Y">>
s_FTP_PROXY == <<"F","T","P","_","P","R","O","X","Y">>
s_HTTP == <<"H","T","T","P">>
s_HTTPS == <<"H","T","T","P","S">>
s_FTP == <<"F","T","P">>
s_PROXY_suffix == <<"_","P","R","O","X","Y">>
s_yes == <<"y","e","s">>
s_eq_quote == <<"=", "\"">>
s_quote == <<"\"">>

\* sysconfig_proxy.rs 105-111
strip_after_quote(s) ==
    LET pos == find(s, s_quote)
    IN IF pos # 0 THEN SubSeq(s, 1, pos - 1) ELSE s

\* the loop of read_key_value_pairs_from_file going on after a line without ="
RECURSIVE read_lines_SkipBad(_, _)
read_lines_SkipBad(map, lines_left) ==
    IF lines_left = <<>> THEN Ok(map)
    ELSE LET line == Head(lines_left)
             pos == find(line, s_eq_quote)
         IN IF line = <<>> \/ pos = 0 THEN read_lines_SkipBad(map, Tail(lines_left))
            ELSE read_lines_SkipBad(
                     MapInsert(map, SubSeq(line, 1, pos - 1),
                               strip_after_quote(SubSeq(line, pos + 2, Len(line)))),
                     Tail(lines_left))

\* sysconfig_proxy.rs 84-101: the loop over the lines of the file
RECURSIVE read_lines(_, _)
read_lines(map, lines_left) ==
    IF lines_left = <<>> THEN Ok(map)
    ELSE LET line == Head(lines_left)
         IN IF line = <<>> THEN read_lines(map, Tail(lines_left))
            ELSE LET pos == find(line, s_eq_quote)
                 IN IF pos # 0
                    THEN LET key == SubSeq(line, 1, pos - 1)
                             value == strip_after_quote(SubSeq(line, pos + 2, Len(line)))
                         IN read_lines(MapInsert(map, key, value), Tail(lines_left))
                    ELSE Err("InvalidConfig")

\* sysconfig_proxy.rs 80-102
read_key_value_pairs_from_file(f) ==
    IF ~(f.exists /\ f.readable) THEN IoError   \* File::open(file)?
    ELSE read_lines(EmptyMap, f.lines)

\* sysconfig_proxy.rs 39-47: the proxies taken from the map
RECURSIVE insert_schemes(_, _, _)
insert_schemes(proxies, map, schemes) ==
    IF schemes = <<>> THEN proxies
    ELSE LET scheme == Head(schemes)
             key == scheme \o s_PROXY_suffix
         IN IF key \in DOMAIN map
            THEN insert_schemes(MapInsert(proxies, to_lowercase(scheme), map[key]),
                                map, Tail(schemes))
            ELSE insert_schemes(proxies, map, Tail(schemes))

\* sysconfig_proxy.rs 50-56: the whitelist taken from the map
file_whitelist(map) ==
    IF s_NO_PROXY \in DOMAIN map
    THEN {to_lowercase(trim(no_proxy_url)) :
             no_proxy_url \in Range(split(map[s_NO_PROXY], ","))}
    ELSE {}

\* the function treating every PROXY_ENABLED value other than "no" as "yes"
get_proxy_config_from_file_LaxEnabled(f) ==
    IF ~f.exists THEN OkNone
    ELSE LET read == read_key_value_pairs_from_file(f)
         IN IF read.tag = "Err" THEN read
            ELSE LET map == read.value
                 IN IF s_PROXY_ENABLED \notin DOMAIN map THEN Err("InvalidConfig")
                    ELSE IF map[s_PROXY_ENABLED] = s_no THEN OkNone
                    ELSE OkSome(ProxyConfig(
                             insert_schemes(EmptyMap, map, <<s_HTTP, s_HTTPS, s_FTP>>),
                             file_whitelist(map), FALSE))

\* sysconfig_proxy.rs 22-59
get_proxy_config_from_file(f) ==
    IF ~f.exists THEN OkNone
    ELSE LET read == read_key_value_pairs_from_file(f)
         IN IF read.tag = "Err" THEN read
            ELSE LET map == read.value
                 IN IF s_PROXY_ENABLED \notin DOMAIN map THEN Err("InvalidConfig")
                    ELSE IF map[s_PROXY_ENABLED] = s_no THEN OkNone
                    ELSE IF map[s_PROXY_ENABLED] # s_yes THEN Err("InvalidConfig")
                    ELSE OkSome(ProxyConfig(
                             insert_schemes(EmptyMap, map, <<s_HTTP, s_HTTPS, s_FTP>>),
                             file_whitelist(map), FALSE))

(* The files the source is run on *)

Quoted(key, value) == key \o s_eq_quote \o value \o s_quote

l_enabled_yes == Quoted(s_PROXY_ENABLED, s_yes)
l_enabled_no == Quoted(s_PROXY_ENABLED, s_no)
l_enabled_Yes == Quoted(s_PROXY_ENABLED, <<"Y","e","s">>)
l_http == Quoted(s_HTTP_PROXY, s_value_Px)
l_https_open == s_HTTPS_PROXY \o s_eq_quote \o s_value_q
l_ftp_trailing == Quoted(s_FTP_PROXY, s_value_Px) \o <<"x">>
l_no_proxy == Quoted(s_NO_PROXY, s_value_list)
l_http_unquoted == s_HTTP_PROXY \o <<"=">> \o s_value_Px
l_blank_char == <<" ">>
l_lower_key == Quoted(s_http_proxy, s_value_q)
l_double == <<"X","=","=","\"","a","=","\"","b">>

FileLines ==
    { <<>>, l_enabled_yes, l_enabled_no, l_enabled_Yes, l_http, l_https_open,
      l_ftp_trailing, l_no_proxy, l_http_unquoted, l_blank_char, l_lower_key,
      l_double }

RECURSIVE LinesUpTo(_)
LinesUpTo(n) ==
    IF n = 0 THEN {<<>>}
    ELSE LET shorter == LinesUpTo(n - 1)
         IN shorter \cup {Append(ls, l) : ls \in shorter, l \in FileLines}

Files ==
    {MissingFile, [exists |-> TRUE, readable |-> FALSE, lines |-> <<>>]}
        \cup {[exists |-> TRUE, readable |-> TRUE, lines |-> ls] : ls \in LinesUpTo(MaxLines)}

InitFile ==
    /\ file \in Files
    /\ kv_result = NotCalled
    /\ file_result = NotCalled
    /\ IdleMatcher /\ IdleEnv /\ IdleAgg

\* read_key_value_pairs_from_file is called on the file
ReadKeyValuePairsFromFile ==
    /\ kv_result = NotCalled
    /\ kv_result' = read_key_value_pairs_from_file(file)
    /\ UNCHANGED <<file, file_result, matcher_vars, env_vars_all, agg_vars>>

\* get_proxy_config_from_file is called on the file
GetProxyConfigFromFile ==
    /\ file_result = NotCalled
    /\ file_result' = get_proxy_config_from_file(file)
    /\ UNCHANGED <<file, kv_result, matcher_vars, env_vars_all, agg_vars>>

NextFile == ReadKeyValuePairsFromFile \/ GetProxyConfigFromFile

SpecFile == InitFile /\ [][NextFile]_vars

----------------------------------------------------------------------------
(* File source: properties *)

EqQuoteAt(line, p) == p < Len(line) /\ line[p] = "=" /\ line[p + 1] = "\""

\* the line contains the sequence ="
Conforms(line) == \E p \in 1..Len(line) : EqQuoteAt(line, p)

\* the text before the first ="
KeyOfLine(line) ==
    LET p == CHOOSE p \in 1..Len(line) :
                 EqQuoteAt(line, p) /\ \A q \in 1..(p - 1) : ~EqQuoteAt(line, q)
    IN SubSeq(line, 1, p - 1)

\* the text after the first =" up to the next double quote, or to the end of
\* the line when there is none
ValueOfLine(line) ==
    LET p == CHOOSE p \in 1..Len(line) :
                 EqQuoteAt(line, p) /\ \A q \in 1..(p - 1) : ~EqQuoteAt(line, q)
        quotes == {q \in (p + 2)..Len(line) : line[q] = "\""}
        stop == IF quotes = {} THEN Len(line) + 1
                ELSE CHOOSE q \in quotes : \A r \in quotes : q <= r
    IN SubSeq(line, p + 2, stop - 1)

FileIsRead == file.exists /\ file.readable

BadLines == {i \in 1..Len(file.lines) : file.lines[i] # <<>> /\ ~Conforms(file.lines[i])}

Grammatical == FileIsRead /\ BadLines = {}

\* the positions of the lines whose key is k
LinesWithKey(k) ==
    {i \in 1..Len(file.lines) : Conforms(file.lines[i]) /\ KeyOfLine(file.lines[i]) = k}

HasKey(k) == LinesWithKey(k) # {}

\* the value the file gives to key k: that of the last line with this key
FileValue(k) ==
    ValueOfLine(file.lines[CHOOSE i \in LinesWithKey(k) : \A j \in LinesWithKey(k) : j <= i])

ClaimedSchemes == {sc \in {s_HTTP, s_HTTPS, s_FTP} : HasKey(sc \o s_PROXY_suffix)}

\* the comma-separated pieces of a NO_PROXY value, trimmed and lower-cased
ClaimedFileWhitelist ==
    IF HasKey(s_NO_PROXY)
    THEN {to_lowercase(TrimmedOf(piece)) : piece \in PiecesOf(FileValue(s_NO_PROXY))}
    ELSE {}

\* C8: a missing path yields Absent. For a file that is read and whose
\* non-blank lines all contain =" : Absent when PROXY_ENABLED is "no", an
\* InvalidConfig fault when PROXY_ENABLED is missing or neither "yes" nor "no",
\* and for "yes" the configuration built from HTTP_PROXY, HTTPS_PROXY,
\* FTP_PROXY and NO_PROXY alone
C8_ProxyEnabled ==
    file_result # NotCalled =>
        /\ ~file.exists => file_result = OkNone
        /\ Grammatical =>
              /\ ~HasKey(s_PROXY_ENABLED) => file_result = Err("InvalidConfig")
              /\ HasKey(s_PROXY_ENABLED) =>
                    LET enabled == FileValue(s_PROXY_ENABLED)
                    IN /\ enabled = <<"n","o">> => file_result = OkNone
                       /\ enabled \notin {<<"n","o">>, <<"y","e","s">>}
                              => file_result = Err("InvalidConfig")
                       /\ enabled = <<"y","e","s">> =>
                             /\ file_result.tag = "OkSome"
                             /\ DOMAIN file_result.config.proxies
                                    = {to_lowercase(sc) : sc \in ClaimedSchemes}
                             /\ \A sc \in ClaimedSchemes :
                                    file_result.config.proxies[to_lowercase(sc)]
                                        = FileValue(sc \o s_PROXY_suffix)
                             /\ file_result.config.whitelist = ClaimedFileWhitelist
                             /\ file_result.config.exclude_simple = FALSE

\* C8 witness: PROXY_ENABLED="no" after two proxy keys gives Absent
C8_Witness ==
    /\ file.lines = <<l_http, l_no_proxy, l_enabled_no>>
    /\ file_result = OkNone

C9_WitnessParse ==
    /\ file.lines = <<l_double, l_https_open>>
    /\ kv_result = Ok([k \in {<<"X","=">>, s_HTTPS_PROXY} |->
                          IF k = s_HTTPS_PROXY THEN s_value_q ELSE <<"a","=">>])


----------------------------------------------------------------------------
(* Aggregator: lib.rs METHODS and get_proxy_config *)

\* METHODS with the sysconfig file consulted before the environment
METHODS_FileFirst == <<"sysconfig_proxy", "env", "windows", "macos">>

\* lib.rs 83-92: the sources, in the order of the array; each entry is
\* compiled in or not by its cfg attribute
METHODS == <<"env", "sysconfig_proxy", "windows", "macos">>

\* the cfg selections a build can make: the two features are free, and the
\* target is Windows, macOS or neither
CfgSelections ==
    {sel \in SUBSET {"env", "sysconfig_proxy", "windows", "macos"} :
        ~({"windows", "macos"} \subseteq sel)}

IsSelected(sel, name) == name \in sel

\* the METHODS arrays the builds contain
Builds ==
    {SelectSeq(METHODS, LAMBDA name : IsSelected(sel, name)) : sel \in CfgSelections}

\* what windows::get_proxy_config and macos::get_proxy_config may return: a
\* non-empty configuration, Absent, or a fault
PlatformOutcomes ==
    { OkNone,
      OkSome(ProxyConfig([k \in {s_https} |-> s_endpoint9], {s_localhost_}, TRUE)),
      Err("InvalidConfig"),
      IoError }

\* the call get_proxy_config() of the loop, for one source
CallSource(name) ==
    CASE name = "env" -> env_get_proxy_config(env_vars)
      [] name = "sysconfig_proxy" -> get_proxy_config_from_file(file)
      [] OTHER -> platform

AggEnvironments ==
    { <<>>,
      <<EnvVar(s_NO_PROXY, s_value_list)>>,
      <<EnvVar(s_NO_PROXY, s_value_list), EnvVar(s_HTTP_PROXY, s_value_Px)>> }

AggFiles ==
    { MissingFile,
      [exists |-> TRUE, readable |-> FALSE, lines |-> <<>>],
      [exists |-> TRUE, readable |-> TRUE, lines |-> <<l_enabled_yes, l_ftp_trailing>>],
      [exists |-> TRUE, readable |-> TRUE, lines |-> <<l_enabled_yes>>],
      [exists |-> TRUE, readable |-> TRUE, lines |-> <<l_http, l_enabled_no>>],
      [exists |-> TRUE, readable |-> TRUE, lines |-> <<l_enabled_yes, l_http_unquoted>>] }

Init ==
    /\ methods \in Builds
    /\ env_vars \in AggEnvironments
    /\ env_result = NotCalled
    /\ file \in AggFiles
    /\ kv_result = NotCalled
    /\ file_result = NotCalled
    /\ platform \in PlatformOutcomes
    /\ pc = "start"
    /\ idx = 1
    /\ last_err = None
    /\ consulted = <<>>
    /\ result = NotCalled
    /\ IdleMatcher

\* lib.rs 96-98
ReturnPlatformNotSupported ==
    /\ pc = "start"
    /\ methods = <<>>
    /\ result' = Err("PlatformNotSupported")
    /\ pc' = "done"
    /\ UNCHANGED <<methods, platform, idx, last_err, consulted,
                   matcher_vars, env_vars_all, file_vars>>

\* lib.rs 100
EnterLoop ==
    /\ pc = "start"
    /\ methods # <<>>
    /\ last_err' = None
    /\ pc' = "loop"
    /\ UNCHANGED <<methods, platform, idx, consulted, result,
                   matcher_vars, env_vars_all, file_vars>>

\* the loop body returning the first fault it meets
Consult_StopAtFault ==
    /\ pc = "loop"
    /\ idx <= Len(methods)
    /\ LET outcome == CallSource(methods[idx])
       IN /\ consulted' = Append(consulted, [source |-> methods[idx], outcome |-> outcome])
          /\ IF outcome.tag = "OkNone"
             THEN /\ idx' = idx + 1
                  /\ UNCHANGED <<result, pc, last_err>>
             ELSE /\ result' = outcome
                  /\ pc' = "done"
                  /\ UNCHANGED <<idx, last_err>>
    /\ UNCHANGED <<methods, platform, matcher_vars, env_vars_all, file_vars>>

\* lib.rs 101-107: one iteration of the loop
Consult ==
    /\ pc = "loop"
    /\ idx <= Len(methods)
    /\ LET outcome == CallSource(methods[idx])
       IN /\ consulted' = Append(consulted, [source |-> methods[idx], outcome |-> outcome])
          /\ CASE outcome.tag = "OkSome" ->
                    /\ result' = OkSome(outcome.config)
                    /\ pc' = "done"
                    /\ UNCHANGED <<idx, last_err>>
               [] outcome.tag = "Err" ->
                    /\ last_err' = Some(outcome)
                    /\ idx' = idx + 1
                    /\ UNCHANGED <<result, pc>>
               [] OTHER ->
                    /\ idx' = idx + 1
                    /\ UNCHANGED <<result, pc, last_err>>
    /\ UNCHANGED <<methods, platform, matcher_vars, env_vars_all, file_vars>>

\* lib.rs 109-113: after the loop
ReturnAfterLoop ==
    /\ pc = "loop"
    /\ idx > Len(methods)
    /\ result' = IF last_err # None THEN last_err.value ELSE OkNone
    /\ pc' = "done"
    /\ UNCHANGED <<methods, platform, idx, last_err, consulted,
                   matcher_vars, env_vars_all, file_vars>>

Next == ReturnPlatformNotSupported \/ EnterLoop \/ Consult \/ ReturnAfterLoop

Spec == Init /\ [][Next]_vars

----------------------------------------------------------------------------
(* Aggregator: properties *)

\* the place of a source in the order environment, sysconfig file, Windows, macOS
Rank(name) ==
    CASE name = "env" -> 1
      [] name = "sysconfig_proxy" -> 2
      [] name = "windows" -> 3
      [] name = "macos" -> 4

Compiled == {methods[i] : i \in 1..Len(methods)}

\* what each compiled source yields when asked
Yields(name) ==
    CASE name = "env" -> env_get_proxy_config(env_vars)
      [] name = "sysconfig_proxy" -> get_proxy_config_from_file(file)
      [] name \in {"windows", "macos"} -> platform

Succeeding == {m \in Compiled : Yields(m).tag = "OkSome"}
Faulting == {m \in Compiled : Yields(m).tag = "Err"}

FirstOf(S) == CHOOSE m \in S : \A n \in S : Rank(m) <= Rank(n)
LastOf(S) == CHOOSE m \in S : \A n \in S : Rank(n) <= Rank(m)

\* C1: the sources are consulted in the order environment, sysconfig file,
\* Windows, macOS; the configuration returned is that of the first source of
\* this order that yields a success, whatever the earlier ones yielded; no
\* source is consulted after a success; and when the environment sets a proxy,
\* the configuration returned is the environment's
C1_FirstSuccessWins ==
    /\ \A i \in 1..Len(consulted) :
          /\ consulted[i].source = methods[i]
          /\ \A j \in 1..(i - 1) :
                /\ Rank(consulted[j].source) < Rank(consulted[i].source)
                /\ consulted[j].outcome.tag # "OkSome"
    /\ (pc = "done" /\ Succeeding # {}) =>
          /\ result = Yields(FirstOf(Succeeding))
          /\ consulted[Len(consulted)].source = FirstOf(Succeeding)
    /\ (pc = "done" /\ "env" \in Compiled /\ ProxyPositions # {}) =>
          /\ result.tag = "OkSome"
          /\ DOMAIN result.config.proxies = ClaimedKeys
          /\ Len(consulted) = 1

\* C1 witness: environment and file both hold a configuration; the
\* environment's is returned and the file was not consulted
C1_Witness ==
    /\ pc = "done"
    /\ methods = <<"env", "sysconfig_proxy", "windows">>
    /\ {"env", "sysconfig_proxy"} \subseteq Succeeding
    /\ DOMAIN get_proxy_config_from_file(file).config.proxies = {s_ftp}
    /\ DOMAIN result.config.proxies = {s_http}
    /\ Len(consulted) = 1

\* what the claim lets get_proxy_config return when at least one source is
\* compiled in
ClaimedReturn ==
    /\ result.tag = "Err" <=> (Succeeding = {} /\ Faulting # {})
    /\ result.tag = "Err" => result = Yields(LastOf(Faulting))
    /\ (Succeeding = {} /\ Faulting = {}) => result = OkNone
    /\ \A m \in Faulting :
          (\A n \in Succeeding : Rank(m) < Rank(n))
              => \E i \in 1..Len(consulted) : consulted[i].source = m
    /\ Succeeding = {} => Len(consulted) = Len(methods)

\* C2 (as amended): when at least one source is compiled in, get_proxy_config
\* returns a fault only when no source succeeded and at least one faulted, the
\* fault being that of the last source that faulted; it returns Absent when no
\* source succeeded and none faulted; a faulting source does not end the
\* iteration. When no source is compiled in it returns PlatformNotSupported.
C2_LastFault ==
    pc = "done" =>
        /\ methods # <<>> => ClaimedReturn
        /\ methods = <<>> => result = Err("PlatformNotSupported")

\* C2 witness: the file faults with InvalidConfig, the platform source after
\* it faults with Io, and Io is returned
C2_Witness ==
    /\ pc = "done"
    /\ methods = <<"env", "sysconfig_proxy", "macos">>
    /\ Len(consulted) = 3
    /\ consulted[2].outcome = Err("InvalidConfig")
    /\ consulted[3].outcome = Err("Io")
    /\ result = Err("Io")

\* C2 as stated: whatever the build, a fault is returned only when a source
\* faulted and none succeeded
C2_Original == pc = "done" => ClaimedReturn

\* C3: neither a source nor get_proxy_config returns a success whose proxies
\* mapping is empty
C3_NoEmptySuccess ==
    /\ \A i \in 1..Len(consulted) :
          consulted[i].outcome.tag = "OkSome"
              => DOMAIN consulted[i].outcome.config.proxies # {}
    /\ result.tag = "OkSome" => DOMAIN result.config.proxies # {}


----------------------------------------------------------------------------
(* Environment source: determinism *)

\* the enumerations of the same set of environment pairs
Enumerations(pairs) == Orders(Range(pairs))

\* C11: for a fixed set of environment pairs the environment source returns
\* the same result whatever the order in which the pairs are enumerated, also
\* when two names differ only in letter case and carry different values
C11_OrderIndependent ==
    env_result # NotCalled =>
        \A enumeration \in Enumerations(env_vars) :
            env_get_proxy_config(enumeration) = env_result


----------------------------------------------------------------------------
(* Environment source and file source: normalization *)

\* either source is run, on an environment or on a file
InitSources == InitEnv \/ InitFile

NextSources == NextEnv \/ NextFile

SpecSources == InitSources /\ [][NextSources]_vars

\* every proxies key and every whitelist entry of cfg is lower-case
IsNormalized(cfg) ==
    /\ \A k \in DOMAIN cfg.proxies : ~HasUpper(k)
    /\ \A w \in cfg.whitelist : ~HasUpper(w)

\* C12: a configuration returned as Success by the environment source or by
\* the file source has only lower-case proxies keys and whitelist entries,
\* whatever the letter case of the names and of the NO_PROXY value; each
\* endpoint is the value of a variable (or of a line) naming that key, in the
\* letter case it was written in
C12_Normalized ==
    /\ env_result.tag = "OkSome" =>
          /\ IsNormalized(env_result.config)
          /\ \A k \in DOMAIN env_result.config.proxies :
                 \E i \in 1..Len(env_vars) :
                     /\ IsSchemeOf(k, env_vars[i].key)
                     /\ env_result.config.proxies[k] = env_vars[i].value
    /\ file_result.tag = "OkSome" =>
          /\ IsNormalized(file_result.config)
          /\ \A k \in DOMAIN file_result.config.proxies :
                 \E sc \in {s_HTTP, s_HTTPS, s_FTP} :
                     /\ IsLowercased(k, sc)
                     /\ \E i \in LinesWithKey(sc \o s_PROXY_suffix) :
                            file_result.config.proxies[k] = ValueOfLine(file.lines[i])

\* C12 witness: a name in mixed case, an endpoint and a NO_PROXY value with
\* upper-case letters; the key and the whitelist come out lower-case, the
\* endpoint as written
C12_Witness ==
    /\ env_vars = <<EnvVar(s_Ftp_Proxy, s_value_Px), EnvVar(s_NO_PROXY, s_value_list)>>
    /\ env_result.tag = "OkSome"
    /\ DOMAIN env_result.config.proxies = {<<"f","t","p">>}
    /\ env_result.config.proxies[<<"f","t","p">>] = <<"P","x">>
    /\ <<"b",".","c">> \in env_result.config.whitelist

\* C12 witness for the file source: HTTP_PROXY="Px" and a NO_PROXY line
C12_WitnessFile ==
    /\ file.lines = <<l_enabled_yes, l_http, l_no_proxy>>
    /\ file_result.tag = "OkSome"
    /\ file_result.config.proxies = [k \in {<<"h","t","t","p">>} |-> <<"P","x">>]
    /\ <<"b",".","c">> \in file_result.config.whitelist


====
